---- MODULE Spec2Model ----
(***************************************************************************)
(* Model of the gesture core of video_app:                                 *)
(*   - MotionTracker (src/motion_tracker.py), the instance motion_tracker  *)
(*     of src/app_with_audio.py line 22, driven by update(left_y, right_y);*)
(*   - is_middle_finger_up (src/gesture_detector.py), a pure function of   *)
(*     one hand's landmarks;                                               *)
(* and of the audio side:                                                  *)
(*   - AudioTranscriber (src/audio_transcriber.py), the instance           *)
(*     audio_transcriber of src/app_with_audio.py line 23, with the        *)
(*     threads that call transcribe(), clear_buffer() and add_audio_chunk; *)
(*   - KeywordListener (src/keyword_listener.py): one listener, the thread *)
(*     that calls start(), stop() and get_last_keyword() on it, the        *)
(*     listening threads start() creates and the audio callback.           *)
(*                                                                         *)
(* Number representation.  Vertical positions are floats in [0,1]; the     *)
(* model keeps them as integers counting thousandths (0.50 is 500), so     *)
(* movement_threshold 0.008 is 8.  detection_frames is a float that only   *)
(* ever changes by +1 and -0.5; the model keeps it in tenths (1 is 10,     *)
(* 0.5 is 5, the trigger level 1.5 is 15).  Arithmetic in the model is     *)
(* exact; binary rounding of the subtraction history[-1] - history[-4] is  *)
(* not modelled (in Python 0.508 - 0.5 > 0.008 holds by rounding, so two   *)
(* model positions 8 apart stand for floats whose computed difference is   *)
(* the threshold itself, such as 0.008 and 0.0).                           *)
(* Landmark coordinates are small integers; x is in hundredths (0.05 is 5).*)
(***************************************************************************)
EXTENDS Integers, Sequences, FiniteSets

VARIABLES
    motion_tracker,   \* the MotionTracker instance: a record of its five fields
    left_y,           \* argument left_y of the most recent update() call
    right_y,          \* argument right_y of the most recent update() call
    path,             \* which return path the most recent update() took
    calls,            \* update() calls since construction, saturating at CallCap
    absent_run,       \* observer: absent calls in a row right after an alternating call
    present_run,      \* observer: present calls in a row since empty histories with cooldown 0
    hand_landmarks,   \* the hand handed to is_middle_finger_up: landmark index -> [x, y]
    gesture,          \* what is_middle_finger_up returned for hand_landmarks, if called
    app_tracker,      \* the MotionTracker instance of src/app.py (history capacity 8)
    audio_transcriber,   \* the AudioTranscriber instance: buffer length, transcription, flag
    transcribe_pc,       \* per calling thread: where its transcribe() call stands
    transcribe_result,   \* per calling thread: what its latest transcribe() returned, if it has
    transcribe_error,    \* per calling thread: the message of the exception its call caught
    transcribe_skipped,  \* per calling thread: the transcription line 50 returned, if taken
    listener,         \* the KeywordListener: q (blocks queued), last_detected, running, thread
    thread_pc,        \* per listening thread: where it stands in listen_loop
    thread_stopped,   \* per listening thread: stop() has been called since it was started
    main_pc,          \* the thread that owns the listener: idle, or inside stop() / get_last_keyword()
    main_keyword,     \* local variable keyword of get_last_keyword(), then its return value
    keyword_fate      \* observer: what has become of the latest detection written to last_detected

vars == << motion_tracker, left_y, right_y, path, calls, absent_run, present_run,
           hand_landmarks, gesture, app_tracker,
           audio_transcriber, transcribe_pc, transcribe_result, transcribe_error,
           transcribe_skipped,
           listener, thread_pc, thread_stopped, main_pc, main_keyword, keyword_fate >>

tracker_vars == << motion_tracker, left_y, right_y, path, calls, absent_run, present_run >>

gesture_vars == << hand_landmarks, gesture >>

audio_vars == << audio_transcriber, transcribe_pc, transcribe_result, transcribe_error,
                 transcribe_skipped >>

listener_vars == << listener, thread_pc, thread_stopped, main_pc, main_keyword, keyword_fate >>

\* what the actions on motion_tracker alone leave as it is
outside_tracker == << gesture_vars, app_tracker, audio_vars, listener_vars >>

\* what the actions on hand_landmarks leave as it is
outside_gesture == << tracker_vars, app_tracker, audio_vars, listener_vars >>

\* what the actions on audio_transcriber leave as it is
outside_audio == << tracker_vars, gesture_vars, app_tracker, listener_vars >>

\* what the actions on the KeywordListener leave as it is
outside_listener == << tracker_vars, gesture_vars, app_tracker, audio_vars >>

(***************************************************************************)
(* Bounds of the model                                                     *)
(***************************************************************************)
\* detection_frames is unbounded in the code; update() calls that would take
\* it above MaxDetection (whole frames) are not explored.
MaxDetection == 2

\* The observer counter calls stops counting here: calls = CallCap reads
\* "CallCap calls or more", every smaller value is exact.
CallCap == 6

\* Threads that call transcribe() and clear_buffer() on the one transcriber.
NumCallers == 2

\* Listening threads of one KeywordListener that can be alive at once; start()
\* is not explored when it would need one more.
MaxThreads == 2

\* queue.Queue() is unbounded; the audio callback is not explored when it
\* would queue more blocks than this.
MaxQueue == 2

(***************************************************************************)
(* Optional values: Python's None and a present float                      *)
(***************************************************************************)
None == << >>

Some(v) == << v >>

(***************************************************************************)
(* MotionTracker                                                           *)
(***************************************************************************)
\* deque(maxlen=6)
HISTORY_MAXLEN == 6

\* "Need at least 4 frames": len(history) < 4 returns early; list[-4] is read
MIN_FRAMES == 4

\* movement_threshold = 0.008, in thousandths
movement_threshold == 8

\* self.cooldown_frames = 30
COOLDOWN_FRAMES == 30

\* self.detection_frames += 1, in tenths
DETECTION_GAIN == 10

\* self.detection_frames -= 0.5, in tenths
DETECTION_DECAY == 5

\* self.detection_frames >= 1.5, in tenths
DETECTION_TRIGGER == 15

\* MotionTracker.__init__
MotionTracker_init ==
    [ left_hand_history    |-> << >>,
      right_hand_history   |-> << >>,
      alternating_detected |-> FALSE,
      detection_frames     |-> 0,
      cooldown_frames      |-> 0 ]

\* variant of deque_append: the capacity 8 of the tracker in src/app.py
deque_append_maxlen8(history, y) ==
    IF Len(history) >= 8
    THEN Append(SubSeq(history, Len(history) - 6, Len(history)), y)
    ELSE Append(history, y)

\* deque.append on a deque(maxlen=HISTORY_MAXLEN): the oldest entry is
\* discarded when the deque is full
deque_append(history, y) ==
    IF Len(history) >= HISTORY_MAXLEN
    THEN Append(SubSeq(history, Len(history) - HISTORY_MAXLEN + 2, Len(history)), y)
    ELSE Append(history, y)

\* abs()
abs(v) == IF v < 0 THEN 0 - v ELSE v

\* left_list[-1] - left_list[-4]
recent_movement(history) ==
    history[Len(history)] - history[Len(history) - MIN_FRAMES + 1]

\* variant of is_moving: a movement equal to the threshold counts as moving
is_moving_at_threshold(movement) == abs(movement) >= movement_threshold

\* left_is_moving / right_is_moving
is_moving(movement) == abs(movement) > movement_threshold

\* variant of is_alternating: the sign test is left out
is_alternating_any_direction(left_movement, right_movement) ==
    /\ is_moving(left_movement)
    /\ is_moving(right_movement)

\* the condition of the "moving in opposite directions" if
is_alternating(left_movement, right_movement) ==
    /\ is_moving(left_movement)
    /\ is_moving(right_movement)
    /\ left_movement * right_movement < 0

\* "Both hands must be present": the test of the first if
hand_absent(ly, ry) == ly = None \/ ry = None

\* variant of update_absent: the cooldown is taken as over one frame early
update_absent_expires_early(self) ==
    LET cleared == [self EXCEPT !.left_hand_history = << >>,
                                !.right_hand_history = << >>]
    IN  IF self.cooldown_frames > 1
        THEN [cleared EXCEPT !.cooldown_frames = @ - 1,
                             !.alternating_detected = TRUE]
        ELSE [cleared EXCEPT !.alternating_detected = FALSE,
                             !.detection_frames = 0]

\* variant of update_absent: only the left history is cleared
update_absent_keeps_right(self) ==
    LET cleared == [self EXCEPT !.left_hand_history = << >>]
    IN  IF self.cooldown_frames > 0
        THEN [cleared EXCEPT !.cooldown_frames = @ - 1,
                             !.alternating_detected = TRUE]
        ELSE [cleared EXCEPT !.alternating_detected = FALSE,
                             !.detection_frames = 0]

\* the body of the first if: clear both histories, then hold or drop the signal
update_absent(self) ==
    LET cleared == [self EXCEPT !.left_hand_history = << >>,
                                !.right_hand_history = << >>]
    IN  IF self.cooldown_frames > 0
        THEN [cleared EXCEPT !.cooldown_frames = @ - 1,
                             !.alternating_detected = TRUE]
        ELSE [cleared EXCEPT !.alternating_detected = FALSE,
                             !.detection_frames = 0]

\* the two appends
update_append(self, ly, ry) ==
    [self EXCEPT !.left_hand_history = deque_append(@, ly[1]),
                 !.right_hand_history = deque_append(@, ry[1])]

\* "Need at least 4 frames": the test of the second if
warming_up(self) ==
    \/ Len(self.left_hand_history) < MIN_FRAMES
    \/ Len(self.right_hand_history) < MIN_FRAMES

\* variant of update_warmup: detection_frames decays during warm-up
update_warmup_decays(self) ==
    LET decayed == IF self.detection_frames > 0
                   THEN [self EXCEPT !.detection_frames = @ - DETECTION_DECAY]
                   ELSE self
    IN  IF self.cooldown_frames > 0
        THEN [decayed EXCEPT !.cooldown_frames = @ - 1,
                             !.alternating_detected = TRUE]
        ELSE [decayed EXCEPT !.alternating_detected = FALSE]

\* variant of update_warmup: the cooldown does not run during warm-up
update_warmup_no_countdown(self) ==
    IF self.cooldown_frames > 0
    THEN [self EXCEPT !.alternating_detected = TRUE]
    ELSE [self EXCEPT !.alternating_detected = FALSE]

\* variant of update_warmup: warm-up also triggers on detection_frames
update_warmup_uses_trigger(self) ==
    IF self.cooldown_frames > 0
    THEN [self EXCEPT !.cooldown_frames = @ - 1,
                      !.alternating_detected = TRUE]
    ELSE [self EXCEPT !.alternating_detected =
                (self.detection_frames >= DETECTION_TRIGGER)]

\* the body of the second if
update_warmup(self) ==
    IF self.cooldown_frames > 0
    THEN [self EXCEPT !.cooldown_frames = @ - 1,
                      !.alternating_detected = TRUE]
    ELSE [self EXCEPT !.alternating_detected = FALSE]

\* whether the histories, as they stand after the appends, qualify
qualifies(self) ==
    is_alternating(recent_movement(self.left_hand_history),
                   recent_movement(self.right_hand_history))

\* variant of update_count: the decay is not guarded by detection_frames > 0
update_count_unguarded_decay(self) ==
    IF qualifies(self)
    THEN [self EXCEPT !.detection_frames = @ + DETECTION_GAIN,
                      !.cooldown_frames = COOLDOWN_FRAMES]
    ELSE [self EXCEPT !.detection_frames = @ - DETECTION_DECAY]

\* count the frame: gain and re-arm on alternating motion, decay otherwise
\* variant of update_count: a call that does not qualify leaves
\* detection_frames as it is
update_count_no_decay(self) ==
    IF qualifies(self)
    THEN [self EXCEPT !.detection_frames = @ + DETECTION_GAIN,
                      !.cooldown_frames = COOLDOWN_FRAMES]
    ELSE self

update_count(self) ==
    IF qualifies(self)
    THEN [self EXCEPT !.detection_frames = @ + DETECTION_GAIN,
                      !.cooldown_frames = COOLDOWN_FRAMES]
    ELSE IF self.detection_frames > 0
         THEN [self EXCEPT !.detection_frames = @ - DETECTION_DECAY]
         ELSE self

\* variant of update_trigger: the countdown is taken first and the flag is
\* decided from the values the call ends with
update_trigger_after_countdown(self) ==
    LET counted == IF self.cooldown_frames > 0
                   THEN [self EXCEPT !.cooldown_frames = @ - 1]
                   ELSE self
    IN  [counted EXCEPT !.alternating_detected =
            (counted.detection_frames >= DETECTION_TRIGGER \/ counted.cooldown_frames > 0)]

\* variant of update_trigger: a cooldown armed in this call is not decremented
\* in the same call
update_trigger_keeps_fresh_cooldown(self) ==
    IF self.detection_frames >= DETECTION_TRIGGER \/ self.cooldown_frames > 0
    THEN IF self.cooldown_frames > 0 /\ self.cooldown_frames < COOLDOWN_FRAMES
         THEN [self EXCEPT !.alternating_detected = TRUE,
                           !.cooldown_frames = @ - 1]
         ELSE [self EXCEPT !.alternating_detected = TRUE]
    ELSE [self EXCEPT !.alternating_detected = FALSE]

\* the final if: trigger on enough detection or on cooldown
update_trigger(self) ==
    IF self.detection_frames >= DETECTION_TRIGGER \/ self.cooldown_frames > 0
    THEN IF self.cooldown_frames > 0
         THEN [self EXCEPT !.alternating_detected = TRUE,
                           !.cooldown_frames = @ - 1]
         ELSE [self EXCEPT !.alternating_detected = TRUE]
    ELSE [self EXCEPT !.alternating_detected = FALSE]

\* MotionTracker.update
update(self, ly, ry) ==
    IF hand_absent(ly, ry)
    THEN update_absent(self)
    ELSE LET appended == update_append(self, ly, ry)
         IN  IF warming_up(appended)
             THEN update_warmup(appended)
             ELSE update_trigger(update_count(appended))

\* the return path update(self, ly, ry) takes
update_path(self, ly, ry) ==
    IF hand_absent(ly, ry)
    THEN "absent"
    ELSE LET appended == update_append(self, ly, ry)
         IN  IF warming_up(appended)
             THEN "warmup"
             ELSE IF qualifies(appended) THEN "alternating" ELSE "steady"

(***************************************************************************)
(* The MotionTracker of src/app.py.  Its class body repeats the one of     *)
(* src/motion_tracker.py line for line except for the capacity of the two  *)
(* histories; the absent branch, the warm-up branch and the final trigger  *)
(* are the operators above, the parts that touch the histories are below.  *)
(***************************************************************************)
\* deque(maxlen=8)
APP_HISTORY_MAXLEN == 8

\* deque.append on a deque(maxlen=APP_HISTORY_MAXLEN)
app_deque_append(history, y) ==
    IF Len(history) >= APP_HISTORY_MAXLEN
    THEN Append(SubSeq(history, Len(history) - APP_HISTORY_MAXLEN + 2, Len(history)), y)
    ELSE Append(history, y)

\* the two appends
app_update_append(self, ly, ry) ==
    [self EXCEPT !.left_hand_history = app_deque_append(@, ly[1]),
                 !.right_hand_history = app_deque_append(@, ry[1])]

\* variant of app_recent_movement: newest sample against the oldest one held
app_recent_movement_oldest(history) ==
    history[Len(history)] - history[1]

\* left_list[-1] - left_list[-4]
app_recent_movement(history) ==
    history[Len(history)] - history[Len(history) - MIN_FRAMES + 1]

\* whether the histories, as they stand after the appends, qualify
app_qualifies(self) ==
    is_alternating(app_recent_movement(self.left_hand_history),
                   app_recent_movement(self.right_hand_history))

\* count the frame: gain and re-arm on alternating motion, decay otherwise
app_update_count(self) ==
    IF app_qualifies(self)
    THEN [self EXCEPT !.detection_frames = @ + DETECTION_GAIN,
                      !.cooldown_frames = COOLDOWN_FRAMES]
    ELSE IF self.detection_frames > 0
         THEN [self EXCEPT !.detection_frames = @ - DETECTION_DECAY]
         ELSE self

\* MotionTracker.update of src/app.py
app_update(self, ly, ry) ==
    IF hand_absent(ly, ry)
    THEN update_absent(self)
    ELSE LET appended == app_update_append(self, ly, ry)
         IN  IF warming_up(appended)
             THEN update_warmup(appended)
             ELSE update_trigger(app_update_count(appended))

(***************************************************************************)
(* AudioTranscriber.  The buffer holds samples whose values play no part   *)
(* in the control flow: the model keeps its length, counted in blocks of   *)
(* 8000 samples (half a second at 16 kHz).  What Whisper makes of the      *)
(* samples is open: model.transcribe either returns a text or raises.      *)
(* total_chunks and last_transcribe_time feed only the log lines and are   *)
(* left out.  Line 57 (the copy of the buffer, outside the try) is taken   *)
(* not to raise: list(deque) runs without releasing the interpreter lock,  *)
(* so add_audio_chunk cannot mutate the deque in the middle of it.         *)
(***************************************************************************)
\* deque(maxlen=16000 * 5), in blocks of 8000 samples
BUFFER_MAXLEN == 10

\* "Need at least 1 second": buffer_size < 16000, in blocks of 8000 samples
MIN_BUFFER == 2

\* what one add_audio_chunk call can add, in blocks
ChunkSizes == {1, 3}

\* result["text"] of a model.transcribe call that returns
Texts == { "hello" }

\* str(e) of a model.transcribe call that raises
ErrorMessages == { "boom" }

\* f"Error: {str(e)}"
ErrorText(msg) == "Error: " \o msg

Callers == 1..NumCallers

AudioTranscriber_init ==
    [ audio_buffer    |-> 0,
      transcription   |-> "",
      is_transcribing |-> FALSE ]

\* deque.extend on a deque with maxlen: the oldest samples fall out
add_audio_chunk(self, n) ==
    [self EXCEPT !.audio_buffer =
        IF @ + n > BUFFER_MAXLEN THEN BUFFER_MAXLEN ELSE @ + n]

\* AudioTranscriber.clear_buffer
clear_buffer(self) ==
    [self EXCEPT !.audio_buffer = 0, !.transcription = ""]

(***************************************************************************)
(* KeywordListener.  q holds raw audio blocks; the model keeps how many.   *)
(* What the recognizer hears in a block is open: each block taken from the *)
(* queue yields one text (rec.Result() or rec.PartialResult(), possibly    *)
(* empty).  Texts are sequences of lower-case words and a keyword is found *)
(* in a text when it is one of its words.                                  *)
(***************************************************************************)
\* self.keywords, in the order given to the constructor
keywords == << "six", "seven" >>

\* texts the recognizer can produce for a block
HeardTexts == { << >>, << "hello" >>, << "six" >>, << "seven" >>, << "seven", "six" >> }

Threads == 1..MaxThreads

Words(text) == { text[i] : i \in DOMAIN text }

\* KeywordListener.detect_keywords: the first keyword of self.keywords found in text
detect_keywords(text) ==
    LET found == { i \in DOMAIN keywords : keywords[i] \in Words(text) }
    IN  IF found = {}
        THEN None
        ELSE Some(keywords[CHOOSE i \in found : \A j \in found : i <= j])

KeywordListener_init ==
    [ q             |-> 0,
      last_detected |-> None,
      running       |-> FALSE,
      thread        |-> None ]

\* threads inside listen_loop
Listening == { t \in Threads : thread_pc[t] \in {"open", "test", "get"} }

\* threads whose RawInputStream is open: its callback feeds self.q
Streaming == { t \in Threads : thread_pc[t] \in {"test", "get"} }

\* slots for a new Thread object
FreeThreads == Threads \ Listening

\* KeywordListener.has_keyword
has_keyword(self) == self.last_detected # None

\* The observer keyword_fate follows the detection last written to
\* last_detected:
\*   "clear"  no detection has been written since get_last_keyword() last
\*            returned (or since construction);
\*   "held"   one has, outside any get_last_keyword() call in progress;
\*   "raced"  one has, after the read of the get_last_keyword() call in
\*            progress and before its write of None;
\*   "lost"   a "raced" detection was wiped by that write of None and the
\*            call returned a different value.  "lost" stays.
fate_after_text(text) ==
    IF keyword_fate = "lost" \/ detect_keywords(text) = None
    THEN keyword_fate
    ELSE IF main_pc = "get_last" THEN "raced" ELSE "held"

fate_after_clear ==
    IF keyword_fate = "lost" \/
       (keyword_fate = "raced" /\ listener.last_detected # main_keyword)
    THEN "lost"
    ELSE "clear"

(***************************************************************************)
(* The frames fed to the tracker.  process() hands update() the wrist y of *)
(* the hand labelled Left and of the hand labelled Right, None for a hand  *)
(* that was not seen.                                                      *)
(***************************************************************************)
PresentFrames ==
    { << Some(500), Some(500) >>, << Some(400), Some(600) >>,
      << Some(600), Some(600) >>, << Some(508), Some(492) >> }

AbsentFrames ==
    { << None, None >>, << None, Some(500) >>, << Some(500), None >> }

Frames == PresentFrames \cup AbsentFrames

\* the frames fed to the two trackers that are run side by side
PairFrames ==
    { << Some(500), Some(500) >>, << Some(400), Some(600) >>,
      << Some(600), Some(600) >>, << None, None >> }

(***************************************************************************)
(* Observers                                                               *)
(***************************************************************************)
next_calls == IF calls < CallCap THEN calls + 1 ELSE calls

\* absent calls in a row that directly follow an alternating call
next_absent_run(p) ==
    IF p = "alternating" THEN Some(0)
    ELSE IF p = "absent" /\ absent_run # None /\ absent_run[1] < COOLDOWN_FRAMES
         THEN Some(absent_run[1] + 1)
         ELSE None

\* present calls in a row that started with empty histories and no cooldown
next_present_run(p, after) ==
    IF p = "absent"
    THEN IF after.cooldown_frames = 0 THEN Some(0) ELSE None
    ELSE IF present_run # None /\ present_run[1] + 1 < MIN_FRAMES
         THEN Some(present_run[1] + 1)
         ELSE None

(***************************************************************************)
(* is_middle_finger_up                                                     *)
(***************************************************************************)
\* the landmarks the model carries: the wrist, the thumb (3, 4) and the tip
\* and joint of the four fingers
Landmarks == {0, 3, 4, 6, 8, 10, 12, 14, 16, 18, 20}

LandmarkYs == {0, 1}

LandmarkXs(i) == IF i \in {3, 4, 12} THEN {0, 5} ELSE {0}

\* variant of is_middle_finger_up: an index tip level with its joint counts as folded
is_middle_finger_up_index_level(landmarks) ==
    LET middle_extended == landmarks[12].y < landmarks[10].y
        index_folded == landmarks[8].y >= landmarks[6].y
        ring_folded == landmarks[16].y > landmarks[14].y
        pinky_folded == landmarks[20].y > landmarks[18].y
    IN  middle_extended /\ index_folded /\ ring_folded /\ pinky_folded

\* variant of is_middle_finger_up: the thumb test takes part in the result
is_middle_finger_up_with_thumb(landmarks) ==
    LET middle_extended == landmarks[12].y < landmarks[10].y
        index_folded == landmarks[8].y > landmarks[6].y
        ring_folded == landmarks[16].y > landmarks[14].y
        pinky_folded == landmarks[20].y > landmarks[18].y
        thumb_folded == \/ landmarks[4].y > landmarks[3].y
                        \/ abs(landmarks[4].x - landmarks[3].x) < 5
    IN  middle_extended /\ index_folded /\ ring_folded /\ pinky_folded /\ thumb_folded

\* is_middle_finger_up(hand_landmarks), on hand_landmarks.landmark
is_middle_finger_up(landmarks) ==
    LET middle_extended == landmarks[12].y < landmarks[10].y
        index_folded == landmarks[8].y > landmarks[6].y
        ring_folded == landmarks[16].y > landmarks[14].y
        pinky_folded == landmarks[20].y > landmarks[18].y
        thumb_folded == \/ landmarks[4].y > landmarks[3].y
                        \/ abs(landmarks[4].x - landmarks[3].x) < 5
    IN  middle_extended /\ index_folded /\ ring_folded /\ pinky_folded

(***************************************************************************)
(* Initial state and actions                                               *)
(***************************************************************************)
Init ==
    /\ motion_tracker = MotionTracker_init
    /\ left_y = None
    /\ right_y = None
    /\ path = "none"
    /\ calls = 0
    /\ absent_run = None
    /\ present_run = Some(0)
    /\ hand_landmarks = [i \in Landmarks |-> [x |-> 0, y |-> 0]]
    /\ gesture = None
    /\ app_tracker = MotionTracker_init
    /\ audio_transcriber = AudioTranscriber_init
    /\ transcribe_pc = [c \in Callers |-> "idle"]
    /\ transcribe_result = [c \in Callers |-> None]
    /\ transcribe_error = [c \in Callers |-> None]
    /\ transcribe_skipped = [c \in Callers |-> None]
    /\ listener = KeywordListener_init
    /\ thread_pc = [t \in Threads |-> "none"]
    /\ thread_stopped = [t \in Threads |-> FALSE]
    /\ main_pc = "idle"
    /\ main_keyword = None
    /\ keyword_fate = "clear"

\* process(): one frame reaches motion_tracker.update(left_hand_y, right_hand_y)
Update(ly, ry) ==
    LET after == update(motion_tracker, ly, ry)
        p == update_path(motion_tracker, ly, ry)
    IN  /\ after.detection_frames <= MaxDetection * DETECTION_GAIN
        /\ motion_tracker' = after
        /\ left_y' = ly
        /\ right_y' = ry
        /\ path' = p
        /\ calls' = next_calls
        /\ absent_run' = next_absent_run(p)
        /\ present_run' = next_present_run(p, after)
        /\ UNCHANGED outside_tracker

\* process(): is_middle_finger_up(hand_landmarks) on the hand of the frame
Classify ==
    /\ gesture' = Some(is_middle_finger_up(hand_landmarks))
    /\ UNCHANGED hand_landmarks
    /\ UNCHANGED outside_gesture

\* the next frame's hand differs from this one in landmark i, and is classified
NextHand(i, x, y) ==
    /\ hand_landmarks' = [hand_landmarks EXCEPT ![i] = [x |-> x, y |-> y]]
    /\ gesture' = Some(is_middle_finger_up(hand_landmarks'))
    /\ UNCHANGED outside_gesture

Next == \E f \in Frames : Update(f[1], f[2])

\* the same frame reaches the tracker of src/app_with_audio.py and the one of
\* src/app.py
UpdateBoth(ly, ry) ==
    LET after == update(motion_tracker, ly, ry)
        app_after == app_update(app_tracker, ly, ry)
    IN  /\ after.detection_frames <= MaxDetection * DETECTION_GAIN
        /\ app_after.detection_frames <= MaxDetection * DETECTION_GAIN
        /\ motion_tracker' = after
        /\ app_tracker' = app_after
        /\ left_y' = ly
        /\ right_y' = ry
        /\ path' = update_path(motion_tracker, ly, ry)
        /\ UNCHANGED << calls, absent_run, present_run >>
        /\ UNCHANGED << gesture_vars, audio_vars, listener_vars >>

NextPair == \E f \in PairFrames : UpdateBoth(f[1], f[2])

SpecPair == Init /\ [][NextPair]_vars

Spec == Init /\ [][Next]_vars

\* update() keeps being called: frames keep arriving at process()
SpecFair == Spec /\ WF_vars(Next)

\* AudioProcessor.recv hands a chunk to add_audio_chunk (the audio worker thread)
AddAudioChunk(n) ==
    /\ audio_transcriber' = add_audio_chunk(audio_transcriber, n)
    /\ UNCHANGED << transcribe_pc, transcribe_result, transcribe_error, transcribe_skipped >>
    /\ UNCHANGED outside_audio

\* a thread that is not inside transcribe() calls clear_buffer()
ClearBuffer(c) ==
    /\ transcribe_pc[c] = "idle"
    /\ audio_transcriber' = clear_buffer(audio_transcriber)
    /\ UNCHANGED << transcribe_pc, transcribe_result, transcribe_error, transcribe_skipped >>
    /\ UNCHANGED outside_audio

\* transcribe() is called: lines 39-46, the buffer length test
TranscribeCall(c) ==
    /\ transcribe_pc[c] = "idle"
    /\ transcribe_error' = [transcribe_error EXCEPT ![c] = None]
    /\ transcribe_skipped' = [transcribe_skipped EXCEPT ![c] = None]
    /\ IF audio_transcriber.audio_buffer < MIN_BUFFER
       THEN /\ transcribe_result' = [transcribe_result EXCEPT ![c] = Some("")]
            /\ UNCHANGED transcribe_pc
       ELSE /\ transcribe_result' = [transcribe_result EXCEPT ![c] = None]
            /\ transcribe_pc' = [transcribe_pc EXCEPT ![c] = "check"]
    /\ UNCHANGED audio_transcriber
    /\ UNCHANGED outside_audio

\* lines 48-50: if self.is_transcribing: return self.transcription
TranscribeCheck(c) ==
    /\ transcribe_pc[c] = "check"
    /\ IF audio_transcriber.is_transcribing
       THEN /\ transcribe_skipped' =
                   [transcribe_skipped EXCEPT ![c] = Some(audio_transcriber.transcription)]
            /\ transcribe_result' =
                   [transcribe_result EXCEPT ![c] = Some(audio_transcriber.transcription)]
            /\ transcribe_pc' = [transcribe_pc EXCEPT ![c] = "idle"]
       ELSE /\ transcribe_pc' = [transcribe_pc EXCEPT ![c] = "set"]
            /\ UNCHANGED << transcribe_result, transcribe_skipped >>
    /\ UNCHANGED << audio_transcriber, transcribe_error >>
    /\ UNCHANGED outside_audio

\* lines 52-61: self.is_transcribing = True, copy the buffer, enter model.transcribe
TranscribeSet(c) ==
    /\ transcribe_pc[c] = "set"
    /\ audio_transcriber' = [audio_transcriber EXCEPT !.is_transcribing = TRUE]
    /\ transcribe_pc' = [transcribe_pc EXCEPT ![c] = "model"]
    /\ UNCHANGED << transcribe_result, transcribe_error, transcribe_skipped >>
    /\ UNCHANGED outside_audio

\* lines 61-62: model.transcribe returns, the text is stored
ModelReturns(c, text) ==
    /\ transcribe_pc[c] = "model"
    /\ audio_transcriber' = [audio_transcriber EXCEPT !.transcription = text]
    /\ transcribe_pc' = [transcribe_pc EXCEPT ![c] = "finally"]
    /\ UNCHANGED << transcribe_result, transcribe_error, transcribe_skipped >>
    /\ UNCHANGED outside_audio

\* lines 68-70: model.transcribe raises, the except clause stores the message
ModelRaises(c, msg) ==
    /\ transcribe_pc[c] = "model"
    /\ audio_transcriber' = [audio_transcriber EXCEPT !.transcription = ErrorText(msg)]
    /\ transcribe_error' = [transcribe_error EXCEPT ![c] = Some(msg)]
    /\ transcribe_pc' = [transcribe_pc EXCEPT ![c] = "finally"]
    /\ UNCHANGED << transcribe_result, transcribe_skipped >>
    /\ UNCHANGED outside_audio

\* lines 71-73: finally: self.is_transcribing = False
TranscribeFinally(c) ==
    /\ transcribe_pc[c] = "finally"
    /\ audio_transcriber' = [audio_transcriber EXCEPT !.is_transcribing = FALSE]
    /\ transcribe_pc' = [transcribe_pc EXCEPT ![c] = "return"]
    /\ UNCHANGED << transcribe_result, transcribe_error, transcribe_skipped >>
    /\ UNCHANGED outside_audio

\* line 75: return self.transcription
TranscribeReturn(c) ==
    /\ transcribe_pc[c] = "return"
    /\ transcribe_result' =
           [transcribe_result EXCEPT ![c] = Some(audio_transcriber.transcription)]
    /\ transcribe_pc' = [transcribe_pc EXCEPT ![c] = "idle"]
    /\ UNCHANGED << audio_transcriber, transcribe_error, transcribe_skipped >>
    /\ UNCHANGED outside_audio

NextAudio ==
    \/ \E n \in ChunkSizes : AddAudioChunk(n)
    \/ \E c \in Callers :
          \/ ClearBuffer(c)
          \/ TranscribeCall(c)
          \/ TranscribeCheck(c)
          \/ TranscribeSet(c)
          \/ \E text \in Texts : ModelReturns(c, text)
          \/ \E msg \in ErrorMessages : ModelRaises(c, msg)
          \/ TranscribeFinally(c)
          \/ TranscribeReturn(c)

SpecAudio == Init /\ [][NextAudio]_vars

\* KeywordListener.start
Start ==
    /\ main_pc = "idle"
    /\ IF ~listener.running
       THEN /\ FreeThreads # {}
            /\ LET t == CHOOSE f \in FreeThreads : \A g \in FreeThreads : f <= g
               IN  /\ listener' = [listener EXCEPT !.running = TRUE, !.thread = Some(t)]
                   /\ thread_pc' = [thread_pc EXCEPT ![t] = "open"]
                   /\ thread_stopped' = [thread_stopped EXCEPT ![t] = FALSE]
       ELSE UNCHANGED << listener, thread_pc, thread_stopped >>
    /\ UNCHANGED << main_pc, main_keyword >>
    /\ UNCHANGED keyword_fate
    /\ UNCHANGED outside_listener

\* KeywordListener.stop up to the call of join
StopCall ==
    /\ main_pc = "idle"
    /\ listener' = [listener EXCEPT !.running = FALSE]
    /\ thread_stopped' = [t \in Threads |-> thread_stopped[t] \/ t \in Listening]
    /\ main_pc' = IF listener.thread # None THEN "join" ELSE "idle"
    /\ UNCHANGED << thread_pc, main_keyword >>
    /\ UNCHANGED keyword_fate
    /\ UNCHANGED outside_listener

\* self.thread.join(timeout=2) returns because the thread has ended
JoinEnded ==
    /\ main_pc = "join"
    /\ listener.thread[1] \notin Listening
    /\ main_pc' = "idle"
    /\ UNCHANGED << listener, thread_pc, thread_stopped, main_keyword >>
    /\ UNCHANGED keyword_fate
    /\ UNCHANGED outside_listener

\* self.thread.join(timeout=2) returns because the two seconds are over
JoinTimeout ==
    /\ main_pc = "join"
    /\ listener.thread[1] \in Listening
    /\ main_pc' = "idle"
    /\ UNCHANGED << listener, thread_pc, thread_stopped, main_keyword >>
    /\ UNCHANGED keyword_fate
    /\ UNCHANGED outside_listener

\* get_last_keyword: keyword = self.last_detected
GetLastRead ==
    /\ main_pc = "idle"
    /\ main_keyword' = listener.last_detected
    /\ main_pc' = "get_last"
    /\ UNCHANGED << listener, thread_pc, thread_stopped >>
    /\ UNCHANGED keyword_fate
    /\ UNCHANGED outside_listener

\* get_last_keyword: self.last_detected = None; return keyword
GetLastClear ==
    /\ main_pc = "get_last"
    /\ listener' = [listener EXCEPT !.last_detected = None]
    /\ main_pc' = "idle"
    /\ keyword_fate' = fate_after_clear
    /\ UNCHANGED << thread_pc, thread_stopped, main_keyword >>
    /\ UNCHANGED outside_listener

\* listen_loop: the recognizer is made and the input stream opened
ThreadOpen(t) ==
    /\ thread_pc[t] = "open"
    /\ thread_pc' = [thread_pc EXCEPT ![t] = "test"]
    /\ UNCHANGED << listener, thread_stopped, main_pc, main_keyword >>
    /\ UNCHANGED keyword_fate
    /\ UNCHANGED outside_listener

\* listen_loop: while self.running; leaving the loop closes the stream and
\* ends the thread
ThreadTest(t) ==
    /\ thread_pc[t] = "test"
    /\ thread_pc' = [thread_pc EXCEPT ![t] = IF listener.running THEN "get" ELSE "done"]
    /\ UNCHANGED << listener, thread_stopped, main_pc, main_keyword >>
    /\ UNCHANGED keyword_fate
    /\ UNCHANGED outside_listener

\* listen_loop: self.q.get() returns a block, the recognizer hears text in
\* it, a keyword found in the text is recorded
ThreadGet(t, text) ==
    /\ thread_pc[t] = "get"
    /\ listener.q > 0
    /\ listener' = [listener EXCEPT
                       !.q = @ - 1,
                       !.last_detected =
                           IF detect_keywords(text) # None THEN detect_keywords(text) ELSE @]
    /\ thread_pc' = [thread_pc EXCEPT ![t] = "test"]
    /\ keyword_fate' = fate_after_text(text)
    /\ UNCHANGED << thread_stopped, main_pc, main_keyword >>
    /\ UNCHANGED outside_listener

\* KeywordListener.callback, called by an open input stream
Callback ==
    /\ Streaming # {}
    /\ listener.q < MaxQueue
    /\ listener' = [listener EXCEPT !.q = @ + 1]
    /\ UNCHANGED << thread_pc, thread_stopped, main_pc, main_keyword >>
    /\ UNCHANGED keyword_fate
    /\ UNCHANGED outside_listener

ThreadStep(t) ==
    \/ ThreadOpen(t)
    \/ ThreadTest(t)
    \/ \E text \in HeardTexts : ThreadGet(t, text)

NextListener ==
    \/ Start
    \/ StopCall
    \/ JoinEnded
    \/ JoinTimeout
    \/ GetLastRead
    \/ GetLastClear
    \/ Callback
    \/ \E t \in Threads : ThreadStep(t)

SpecListener == Init /\ [][NextListener]_vars

\* Every live thread is scheduled again and again, and an open input stream
\* keeps calling the callback.
SpecListenerFair ==
    /\ SpecListener
    /\ \A t \in Threads : WF_vars(ThreadStep(t))
    /\ WF_vars(Callback)

NextGesture ==
    \/ Classify
    \/ \E i \in Landmarks : \E x \in LandmarkXs(i) : \E y \in LandmarkYs : NextHand(i, x, y)

SpecGesture == Init /\ [][NextGesture]_vars

(***************************************************************************)
(* Vocabulary of the properties                                            *)
(***************************************************************************)
lh == motion_tracker.left_hand_history

rh == motion_tracker.right_hand_history

\* the change of a position over the 4 most recent samples of a history
Over4(history) == history[Len(history)] - history[Len(history) - 3]

HasFour == Len(lh) >= 4 /\ Len(rh) >= 4

\* one hand moved up and the other down, each by more than 0.008
OppositeMotion(l, r) ==
    \/ Over4(l) > 8 /\ Over4(r) < 0 - 8
    \/ Over4(l) < 0 - 8 /\ Over4(r) > 8

\* both hands moved up, or both down, each by more than 0.008
SameMotion(l, r) ==
    \/ Over4(l) > 8 /\ Over4(r) > 8
    \/ Over4(l) < 0 - 8 /\ Over4(r) < 0 - 8

\* the last n entries of a sequence
LastN(s, n) == IF Len(s) <= n THEN s ELSE SubSeq(s, Len(s) - n + 1, Len(s))

(***************************************************************************)
(* C1.  As claimed: after every update(), alternating_detected is true iff *)
(* detection_frames >= 1.5 or cooldown_frames > 0, both read at the end of *)
(* the call.                                                               *)
(***************************************************************************)
C1_FlagIffAtEnd ==
    calls > 0 =>
        (motion_tracker.alternating_detected <=>
            (motion_tracker.detection_frames >= 15 \/ motion_tracker.cooldown_frames > 0))

\* C1, amended.  After every update(), alternating_detected is true iff
\* cooldown_frames was positive when the call decided (its value at entry, or
\* 30 when the call qualified), or the call ran on full histories and
\* detection_frames >= 1.5 at its end.  Absent and warm-up calls do not look
\* at detection_frames, and the countdown is taken after the decision.
C1_FlagIffAtDecision ==
    [][ LET qualified == HasFour' /\ OppositeMotion(lh', rh')
            cooldown_at_decision ==
                IF qualified THEN 30 ELSE motion_tracker.cooldown_frames
        IN  motion_tracker'.alternating_detected <=>
                \/ cooldown_at_decision > 0
                \/ HasFour' /\ motion_tracker'.detection_frames >= 15
      ]_vars

\* C1 witness: a warm-up call with the cooldown expired left the flag false
\* although detection_frames is still at 1.5 or more.
C1_Witness ==
    /\ path = "warmup"
    /\ ~motion_tracker.alternating_detected
    /\ motion_tracker.detection_frames >= 15
    /\ motion_tracker.cooldown_frames = 0

(***************************************************************************)
(* C2.  An update() that leaves at least 4 samples in each history, over   *)
(* the last 4 of which the hands moved in opposite directions by more than *)
(* 0.008 each, ends with alternating_detected true and cooldown_frames 29. *)
(* On a fresh tracker four update(0.50, 0.50) give no detection and a      *)
(* following update(0.40, 0.60) gives the flag and cooldown_frames 29.     *)
(***************************************************************************)
C2_AlternatingArmsCooldown ==
    /\ (HasFour /\ OppositeMotion(lh, rh)) =>
            /\ motion_tracker.alternating_detected
            /\ motion_tracker.cooldown_frames = 29
    /\ (calls = 4 /\ lh = <<500, 500, 500, 500>> /\ rh = <<500, 500, 500, 500>>) =>
            /\ ~motion_tracker.alternating_detected
            /\ motion_tracker.detection_frames = 0
            /\ motion_tracker.cooldown_frames = 0
    /\ (calls = 5 /\ lh = <<500, 500, 500, 500, 400>> /\ rh = <<500, 500, 500, 500, 600>>) =>
            /\ motion_tracker.alternating_detected
            /\ motion_tracker.cooldown_frames = 29

\* C2 witness: the scenario's fifth call has been made.
C2_Witness ==
    /\ calls = 5
    /\ lh = <<500, 500, 500, 500, 400>>
    /\ rh = <<500, 500, 500, 500, 600>>
    /\ motion_tracker.alternating_detected
    /\ motion_tracker.cooldown_frames = 29

(***************************************************************************)
(* C3.  After an update() that qualified, each of the next 29 calls in a   *)
(* row with a hand absent leaves alternating_detected true; the 30th sets  *)
(* it false and detection_frames to 0.                                     *)
(***************************************************************************)
C3_AbsentCooldown ==
    absent_run # None =>
        /\ absent_run[1] \in 0..29 => motion_tracker.alternating_detected
        /\ absent_run[1] = 30 =>
                /\ ~motion_tracker.alternating_detected
                /\ motion_tracker.detection_frames = 0

\* C3 witness: the 30th absent call in a row after a qualifying call.
C3_Witness ==
    /\ absent_run = Some(30)
    /\ ~motion_tracker.alternating_detected
    /\ motion_tracker.detection_frames = 0

(***************************************************************************)
(* C4.  As claimed: from any state with empty histories and                *)
(* cooldown_frames = 0, fewer than 4 calls in a row with both hands        *)
(* present leave detection_frames at 0 and alternating_detected false.     *)
(***************************************************************************)
C4_WarmupLeavesZero ==
    (present_run # None /\ present_run[1] >= 1) =>
        /\ motion_tracker.detection_frames = 0
        /\ ~motion_tracker.alternating_detected

\* What the code does in these calls: from any state with empty histories and
\* cooldown_frames = 0, each of fewer than 4 calls in a row with both hands
\* present leaves detection_frames as it was (0 on a fresh tracker, but above
\* 0 when the cooldown ran out on an absent call) and alternating_detected
\* false.
C4_WarmupKeepsDetection ==
    [][ (present_run' # None /\ present_run'[1] >= 1) =>
            /\ motion_tracker'.detection_frames = motion_tracker.detection_frames
            /\ ~motion_tracker'.alternating_detected
      ]_vars

\* The third such call, with detection_frames left above 0.
C4_Witness ==
    /\ present_run = Some(3)
    /\ motion_tracker.detection_frames > 0
    /\ ~motion_tracker.alternating_detected

(***************************************************************************)
(* C5.  An update() in which both hands moved in the same direction over   *)
(* the last 4 samples, each by more than 0.008, does not increment         *)
(* detection_frames and does not re-arm cooldown_frames.                   *)
(***************************************************************************)
C5_SameDirectionNeverCounts ==
    [][ (HasFour' /\ SameMotion(lh', rh')) =>
            /\ motion_tracker'.detection_frames <= motion_tracker.detection_frames
            /\ motion_tracker'.cooldown_frames <= motion_tracker.cooldown_frames
            /\ motion_tracker'.cooldown_frames # 29
      ]_vars

\* C5 witness: a call on full histories with both hands moving the same way,
\* made while a cooldown was running.
C5_Witness ==
    /\ path = "steady"
    /\ HasFour
    /\ SameMotion(lh, rh)
    /\ motion_tracker.cooldown_frames \in 1..28

(***************************************************************************)
(* C6.  is_middle_finger_up returns true iff landmark 12 is strictly above *)
(* landmark 10 (smaller y) and the tips 8, 16, 20 are strictly below their *)
(* joints 6, 14, 18; a hand with one of these three fingers not folded,    *)
(* tip y equal to joint y included, is classified false.                   *)
(***************************************************************************)
FoldedFingers == { <<8, 6>>, <<16, 14>>, <<20, 18>> }

DecidingLandmarks == {6, 8, 10, 12, 14, 16, 18, 20}

C8_AbsentEffect ==
    [][ (left_y' = None \/ right_y' = None) =>
            /\ lh' = << >>
            /\ rh' = << >>
            /\ IF motion_tracker.cooldown_frames > 0
               THEN /\ motion_tracker'.cooldown_frames = motion_tracker.cooldown_frames - 1
                    /\ motion_tracker'.alternating_detected
                    /\ motion_tracker'.detection_frames = motion_tracker.detection_frames
               ELSE /\ ~motion_tracker'.alternating_detected
                    /\ motion_tracker'.detection_frames = 0
      ]_vars

\* C8 witness: only the left hand was absent, during a cooldown, after
\* detection_frames had been raised.
C8_Witness ==
    /\ left_y = None
    /\ right_y = Some(500)
    /\ lh = << >>
    /\ rh = << >>
    /\ motion_tracker.alternating_detected
    /\ motion_tracker.cooldown_frames > 0
    /\ motion_tracker.detection_frames > 0

(***************************************************************************)
(* C9.  cooldown_frames goes down by exactly 1 in every update() in which  *)
(* it is positive at the decision, in every branch; only a qualifying      *)
(* update raises it (to 30, then decremented); it is in 0..29 after every  *)
(* update; when it is positive at entry the call ends with the flag true.  *)
(***************************************************************************)
C9_CooldownCountdown ==
    /\ [](motion_tracker.cooldown_frames \in 0..29)
    /\ [][ /\ motion_tracker'.cooldown_frames =
                IF HasFour' /\ OppositeMotion(lh', rh') THEN 29
                ELSE IF motion_tracker.cooldown_frames > 0
                     THEN motion_tracker.cooldown_frames - 1
                     ELSE 0
           /\ motion_tracker.cooldown_frames > 0 => motion_tracker'.alternating_detected
         ]_vars

\* C9 witness: the countdown has run in a warm-up call.
C9_Witness ==
    /\ path = "warmup"
    /\ motion_tracker.cooldown_frames \in 1..27
    /\ motion_tracker.alternating_detected

C11_DetectionFramesSteps ==
    /\ [](/\ motion_tracker.detection_frames >= 0
          /\ motion_tracker.detection_frames % 5 = 0)
    /\ [][ \/ motion_tracker'.detection_frames = motion_tracker.detection_frames
           \/ /\ HasFour' /\ OppositeMotion(lh', rh')
              /\ motion_tracker'.detection_frames = motion_tracker.detection_frames + 10
           \/ /\ HasFour' /\ ~OppositeMotion(lh', rh')
              /\ motion_tracker.detection_frames > 0
              /\ motion_tracker'.detection_frames = motion_tracker.detection_frames - 5
           \/ /\ left_y' = None \/ right_y' = None
              /\ motion_tracker.cooldown_frames = 0
              /\ motion_tracker'.detection_frames = 0
         ]_vars

\* C11 witness: detection_frames has decayed to 0.5 on a non-qualifying call.
C11_Witness ==
    /\ path = "steady"
    /\ motion_tracker.detection_frames = 5

(***************************************************************************)
(* C13.  An update() increments detection_frames or re-arms the cooldown   *)
(* only if both 4-sample movements (newest minus 4th newest) are above     *)
(* 0.008 in absolute value and their product is negative; a movement of    *)
(* exactly 0.008, or less, or zero, never qualifies.                       *)
(***************************************************************************)
C13_QualifiesOnlyAboveThreshold ==
    [][ (\/ motion_tracker'.detection_frames > motion_tracker.detection_frames
         \/ motion_tracker'.cooldown_frames > motion_tracker.cooldown_frames
         \/ motion_tracker'.cooldown_frames = 29)
        => /\ HasFour'
           /\ abs(Over4(lh')) > 8
           /\ abs(Over4(rh')) > 8
           /\ Over4(lh') * Over4(rh') < 0
      ]_vars

\* C13 witness: the hands moved in opposite directions by exactly 0.008 each
\* and the call did not qualify: no cooldown is running.
C13_Witness ==
    /\ path = "steady"
    /\ HasFour
    /\ Over4(lh) = 8
    /\ Over4(rh) = 0 - 8
    /\ motion_tracker.cooldown_frames = 0
    /\ motion_tracker.detection_frames = 0

(***************************************************************************)
(* C14.  An update() with both hands present that returns in warm-up       *)
(* (fewer than 4 samples in a history after appending) leaves              *)
(* detection_frames unchanged, appends exactly one sample to each history, *)
(* and sets alternating_detected to true exactly when cooldown_frames was  *)
(* above 0 at entry, decrementing it by 1 in that case.                    *)
(***************************************************************************)
C14_WarmupEffect ==
    [][ (/\ left_y' # None
         /\ right_y' # None
         /\ Len(lh') < 4 \/ Len(rh') < 4)
        => /\ motion_tracker'.detection_frames = motion_tracker.detection_frames
           /\ lh' = Append(lh, left_y'[1])
           /\ rh' = Append(rh, right_y'[1])
           /\ motion_tracker'.alternating_detected = (motion_tracker.cooldown_frames > 0)
           /\ motion_tracker'.cooldown_frames =
                IF motion_tracker.cooldown_frames > 0
                THEN motion_tracker.cooldown_frames - 1
                ELSE 0
      ]_vars

\* C14 witness: a warm-up call after the cooldown ran out, detection_frames
\* still at 1.5 or more, flag false.
C14_Witness ==
    /\ path = "warmup"
    /\ Len(lh) = 2
    /\ motion_tracker.detection_frames >= 15
    /\ motion_tracker.cooldown_frames = 0
    /\ ~motion_tracker.alternating_detected

(***************************************************************************)
(* C20.  alternating_detected never goes from false (after one update) to  *)
(* true (after the next) unless that next update qualifies as alternating  *)
(* motion.                                                                 *)
(***************************************************************************)
C20_NoReassertWithoutMotion ==
    [][ (/\ calls > 0
         /\ ~motion_tracker.alternating_detected
         /\ motion_tracker'.alternating_detected)
        => (HasFour' /\ OppositeMotion(lh', rh'))
      ]_vars

(***************************************************************************)
(* C19.  The MotionTracker of app.py (capacity 8) and the one of           *)
(* motion_tracker.py (capacity 6), fed the same update() calls from their  *)
(* initial states, agree on alternating_detected, detection_frames and     *)
(* cooldown_frames after every call; samples older than the 4 most recent  *)
(* never matter.                                                           *)
(***************************************************************************)
C19_TrackersAgree ==
    /\ app_tracker.alternating_detected = motion_tracker.alternating_detected
    /\ app_tracker.detection_frames = motion_tracker.detection_frames
    /\ app_tracker.cooldown_frames = motion_tracker.cooldown_frames
    /\ lh = LastN(app_tracker.left_hand_history, 6)
    /\ rh = LastN(app_tracker.right_hand_history, 6)

\* C19 witness: the tracker of app.py holds 8 samples, two of which the other
\* one has dropped and which differ from the ones kept, and a call on these
\* histories qualified.
C19_Witness ==
    /\ Len(app_tracker.left_hand_history) = 8
    /\ Len(lh) = 6
    /\ app_tracker.left_hand_history[1] # app_tracker.left_hand_history[5]
    /\ app_tracker.left_hand_history[2] # app_tracker.left_hand_history[5]
    /\ path = "alternating"
    /\ app_tracker.alternating_detected
    /\ app_tracker.cooldown_frames = 29

(***************************************************************************)
(* C15.  At most one model transcription is in progress at any time; a     *)
(* transcribe() call that finds is_transcribing true returns the stored    *)
(* transcription without invoking the model, under any interleaving of     *)
(* concurrent transcribe() calls.                                          *)
(***************************************************************************)
InModel == { c \in Callers : transcribe_pc[c] = "model" }

C15_OneTranscriptionAtATime ==
    /\ Cardinality(InModel) <= 1
    /\ \A c \in Callers :
          transcribe_skipped[c] # None =>
              /\ transcribe_pc[c] = "idle"
              /\ transcribe_error[c] = None
              /\ transcribe_result[c] = transcribe_skipped[c]

(***************************************************************************)
(* C16.  Whenever no transcribe() call is executing, is_transcribing is    *)
(* false: every call that sets the flag clears it before it ends, also     *)
(* when model.transcribe raises.  A call whose transcription failed with   *)
(* message m leaves "Error: m" stored when it ends and returns that text;  *)
(* it ends by returning (there is no step in which it ends otherwise).     *)
(***************************************************************************)
NoCallExecuting == \A c \in Callers : transcribe_pc[c] = "idle"

C16_FlagClearedAndErrorStored ==
    /\ NoCallExecuting => ~audio_transcriber.is_transcribing
    /\ \A c \in Callers :
          transcribe_error[c] # None =>
              /\ transcribe_pc[c] \in {"finally", "return", "idle"}
              /\ transcribe_pc[c] = "return" =>
                    audio_transcriber.transcription = ErrorText(transcribe_error[c][1])
              /\ transcribe_pc[c] = "idle" =>
                    transcribe_result[c] = Some(ErrorText(transcribe_error[c][1]))

(***************************************************************************)
(* C17.  At most one listening thread runs listen_loop at any time, after  *)
(* any sequence of start() and stop() calls; while running is set, start() *)
(* creates no thread.                                                      *)
(***************************************************************************)
C17_OneListeningThread ==
    [][ /\ Cardinality(Listening') <= 1
        /\ listener.running => Listening' \subseteq Listening ]_vars

(***************************************************************************)
(* C18.  After stop() is called on a running listener, each listening      *)
(* thread that was alive at the call eventually leaves its loop and        *)
(* terminates; and a keyword is recorded into last_detected only by a      *)
(* thread that is still inside its loop, never after it has terminated.    *)
(***************************************************************************)
KeywordRecorded ==
    /\ listener'.last_detected # listener.last_detected
    /\ listener'.last_detected # None

C18_StoppedThreadTerminates ==
    /\ \A t \in Threads : thread_stopped[t] ~> thread_pc[t] = "done"
    /\ [][ KeywordRecorded =>
              \E t \in Threads : thread_pc[t] = "get" /\ thread_pc'[t] = "test" ]_vars

(***************************************************************************)
(* C21.  From any reachable state, if update() keeps being called and no   *)
(* further call qualifies as alternating motion, whatever mix of absent,   *)
(* warm-up and non-qualifying full-history frames is fed,                  *)
(* alternating_detected eventually becomes false.  Said of a whole run:    *)
(* again and again either the flag is false or the latest call qualified.  *)
(***************************************************************************)
C21_FlagEventuallyDrops ==
    []<>(~motion_tracker.alternating_detected \/ path = "alternating")

\* The cooldown has run out with detection_frames left at 2, a full-history
\* call without motion has decayed it to 1.5 and kept the flag, and the next
\* such call has decayed it to 1 and dropped the flag.
C21_Witness ==
    /\ path = "steady"
    /\ ~motion_tracker.alternating_detected
    /\ motion_tracker.cooldown_frames = 0
    /\ motion_tracker.detection_frames = 2 * DETECTION_GAIN - 2 * DETECTION_DECAY

(***************************************************************************)
(* C22.  A keyword recorded by the listening thread is never silently lost *)
(* to get_last_keyword(): under any interleaving of the listening thread   *)
(* and a caller, each value written to last_detected is returned by a      *)
(* get_last_keyword() call or overwritten by a later detection; and after  *)
(* get_last_keyword() has returned, with no detection since, has_keyword() *)
(* is false.  A value wiped by a call that returns an equal value is       *)
(* counted as returned.                                                    *)
(***************************************************************************)
C22_NoKeywordLost ==
    /\ keyword_fate # "lost"
    /\ keyword_fate = "clear" => ~has_keyword(listener)

====
